---- MODULE Spec2Model ----
(***************************************************************************)
(* A model of the cbrkit retrieval and reuse pipelines:                    *)
(*   src/src/cbrkit/retrieval.py   QueryResultStep, Result, apply_queries, *)
(*                                 chunkify, dropout, transpose, build     *)
(*   src/src/cbrkit/reuse/apply.py apply_batches                           *)
(*                                                                         *)
(* Python values are represented as follows.                               *)
(*   dict / Mapping   a sequence of <<key, value>> pairs with distinct     *)
(*                    keys, in insertion (= iteration) order               *)
(*   list / tuple     a sequence                                           *)
(*   None | x         <<>> for None, <<x>> for a value x                   *)
(*   similarity value <<tag, n>>: tag "float" for a bare number n, tag     *)
(*                    "struct" for a structured value whose .value is n    *)
(***************************************************************************)
EXTENDS Integers, Sequences, FiniteSets, TLC

VARIABLES
    pc,                \* position of the running call
    args,              \* arguments of the running call (a record, by parameter name)
    ret,               \* return value of a finished call
    outcome,           \* "running", "ok", or the kind of the error raised
    steps,             \* apply_queries / apply_batches: the local list `steps`
    current_casebases, \* retrieval apply_queries: the local `current_casebases`
    current_batches,   \* reuse apply_batches: the local `current_batches`
    retrievers,        \* retrieval apply_queries: the local `retrievers`
    reusers,           \* reuse apply_batches: the local `reusers`
    calls,             \* the argument of every retriever / reuser invocation so far
    exported,          \* the value returned by Result.as_dict
    pool,              \* build.__call__: the chunks handed to the process pool
    requests,          \* cohere / voyageai: the rerank requests of one call
    generator          \* chunkify: the generator the call returned

vars == <<pc, args, ret, outcome, steps, current_casebases, current_batches,
          retrievers, reusers, calls, exported, pool, requests, generator>>

\* the locals of a call that has not started
NoLocals ==
    /\ ret = <<>>
    /\ outcome = "running"
    /\ steps = <<>>
    /\ current_casebases = <<>>
    /\ current_batches = <<>>
    /\ retrievers = <<>>
    /\ reusers = <<>>
    /\ calls = <<>>
    /\ exported = <<>>
    /\ pool = <<>>
    /\ requests = <<>>
    /\ generator = <<>>

---------------------------------------------------------------------------
(* Bounds of the model *)

MaxLen == 4          \* longest sequence handed to chunkify
MaxChunk == 3        \* largest chunk size
MaxSim == 2          \* similarity scalars are 0..MaxSim
MaxRetrievers == 2   \* longest retriever / reuser sequence
MaxQueries == 2      \* most queries of one call

---------------------------------------------------------------------------
(* Python containers *)

None == <<>>
Some(x) == <<x>>
IsNone(o) == o = <<>>

Range(s) == {s[i] : i \in DOMAIN s}

\* list(d) / iteration over a dict: its keys in insertion order
Keys(d) == [i \in DOMAIN d |-> d[i][1]]
\* list(d.values())
Values(d) == [i \in DOMAIN d |-> d[i][2]]
KeySet(d) == {d[i][1] : i \in DOMAIN d}
Has(d, k) == k \in KeySet(d)
\* d[k] for a key that is present
Get(d, k) == d[CHOOSE i \in DOMAIN d : d[i][1] = k][2]
\* d[k] = v: overwrite in place, or insert at the end
Put(d, k, v) ==
    IF Has(d, k)
    THEN [i \in DOMAIN d |-> IF d[i][1] = k THEN <<k, v>> ELSE d[i]]
    ELSE Append(d, <<k, v>>)

\* s[lo:hi] with 0 <= lo, 0-based and half-open as in Python
Slice(s, lo, hi) ==
    LET h == IF hi > Len(s) THEN Len(s) ELSE hi
    IN  IF lo >= h THEN <<>> ELSE SubSeq(s, lo + 1, h)

\* s[:n] for any integer n: a negative n counts from the end
Prefix(s, n) ==
    IF n >= 0 THEN Slice(s, 0, n)
    ELSE IF Len(s) + n <= 0 THEN <<>> ELSE Slice(s, 0, Len(s) + n)

RECURSIVE Concat(_)
Concat(ss) == IF ss = <<>> THEN <<>> ELSE Head(ss) \o Concat(Tail(ss))

\* every dict with keys from K and values from V, in every insertion order
SeqsUpTo(S, n) == UNION {[1..m -> S] : m \in 0..n}
Dicts(K, V) ==
    {d \in SeqsUpTo(K \X V, Cardinality(K)) :
        \A i, j \in DOMAIN d : i # j => d[i][1] # d[j][1]}

---------------------------------------------------------------------------
(* chunkify, retrieval.py:203-212 *)

\* range(0, n, k) for k >= 1
RangeStep(n, k) == [j \in 1..((n + k - 1) \div k) |-> (j - 1) * k]

\* a slice that is one element short
chunk_at_off(val, i, k) == Slice(val, i, i + k - 1)

\* retrieval.py:212: val[i : i + k]
chunk_at(val, i, k) == Slice(val, i, i + k)

\* list(chunkify(val, k)): every chunk
chunkify(val, k) ==
    LET starts == RangeStep(Len(val), k)
    IN  [j \in DOMAIN starts |-> chunk_at(val, starts[j], k)]

Items == {"x", "y"}

InitChunk ==
    /\ pc = "chunkify"
    /\ args \in [val : SeqsUpTo(Items, MaxLen), k : 1..MaxChunk]
    /\ NoLocals

\* chunkify(val, k): the call returns a generator; its body has not started
CallChunkify ==
    /\ pc = "chunkify"
    /\ generator' = [started |-> FALSE, range |-> <<>>, next |-> 1]
    /\ pc' = "generator"
    /\ UNCHANGED <<args, ret, outcome, steps, current_casebases, current_batches,
                   retrievers, reusers, calls, exported, pool, requests>>

\* next(g), retrieval.py:211-212: the first one evaluates
\* range(0, len(val), k); each one yields the slice val[i : i + k], or ends
\* the generator when the range is used up. ret collects the chunks yielded
\* so far.
GeneratorNext ==
    /\ pc = "generator"
    /\ LET range == IF generator.started THEN generator.range
                    ELSE RangeStep(Len(args.val), args.k)
       IN  IF generator.next <= Len(range)
           THEN /\ ret' = Append(ret, chunk_at(args.val, range[generator.next], args.k))
                /\ generator' = [generator EXCEPT !.started = TRUE,
                                                  !.range = range,
                                                  !.next = generator.next + 1]
                /\ UNCHANGED <<pc, outcome>>
           ELSE /\ generator' = [generator EXCEPT !.started = TRUE, !.range = range]
                /\ outcome' = "ok"
                /\ pc' = "done"
                /\ ret' = ret
    /\ UNCHANGED <<args, steps, current_casebases, current_batches,
                   retrievers, reusers, calls, exported, pool, requests>>

NextChunk ==
    \/ CallChunkify
    \/ GeneratorNext

SpecChunk == InitChunk /\ [][NextChunk]_vars

\* the chunks in ret partition val: they concatenate to it, every chunk but
\* the last has length k, the last has length n mod k, or k when k divides n,
\* no chunk is empty, and an empty val has no chunks
Partitions(chunks, val, k) ==
    LET n == Len(val)
        m == Len(chunks)
    IN  /\ Concat(chunks) = val
        /\ \A j \in 1..(m - 1) : Len(chunks[j]) = k
        /\ m > 0 => Len(chunks[m]) = (IF n % k = 0 THEN k ELSE n % k)
        /\ \A j \in 1..m : Len(chunks[j]) > 0
        /\ (n = 0) => (m = 0)

\* C7: the chunks drawn from chunkify(val, k), k >= 1, one at a time until
\* the generator ends, concatenate to val; every chunk but the last has
\* length k; the last has length n mod k, or k when k divides n; no chunk is
\* empty; an empty val yields no chunks. While chunks are being drawn, those
\* drawn so far are the first chunks of that partition.
C7_ChunkifyPartitions ==
    /\ (pc = "done" /\ outcome = "ok") => Partitions(ret, args.val, args.k)
    /\ (pc = "generator") =>
          /\ Len(ret) = generator.next - 1
          /\ \A j \in DOMAIN ret :
                /\ Len(ret[j]) > 0
                /\ ret[j] = SubSeq(args.val, (j - 1) * args.k + 1,
                                   (j - 1) * args.k + Len(ret[j]))
                /\ Len(ret[j]) = args.k \/ (j - 1) * args.k + Len(ret[j]) = Len(args.val)

\* every chunk drawn, the last one short, several of them
C7_Witness ==
    /\ pc = "done"
    /\ outcome = "ok"
    /\ generator.next = Len(generator.range) + 1
    /\ Len(ret) >= 2
    /\ Len(args.val) % args.k # 0
    /\ Len(ret[Len(ret)]) < args.k

---------------------------------------------------------------------------
(* helpers: unpack_sim, similarities2ranking (imported at retrieval.py:7-12) *)

SimTags == {"float", "struct"}
SimScalars == 0..MaxSim
SimVals == SimTags \X SimScalars

\* the scalar of a similarity value: the number itself, or the structured
\* value's .value
unpack_sim(sim) == sim[2]

\* insert key k behind every key whose similarity is not smaller: a stable
\* descending insertion
RankInsert(ranking, k, similarities) ==
    LET v == unpack_sim(Get(similarities, k))
        NotSmaller(x) == unpack_sim(Get(similarities, x)) >= v
        Smaller(x) == unpack_sim(Get(similarities, x)) < v
    IN  SelectSeq(ranking, NotSmaller) \o <<k>> \o SelectSeq(ranking, Smaller)

RECURSIVE RankFrom(_, _, _)
RankFrom(ranking, i, similarities) ==
    IF i > Len(similarities) THEN ranking
    ELSE RankFrom(RankInsert(ranking, similarities[i][1], similarities), i + 1, similarities)

\* the keys sorted by descending scalar, ties in iteration order
similarities2ranking(similarities) == RankFrom(<<>>, 1, similarities)

---------------------------------------------------------------------------
(* QueryResultStep, retrieval.py:34-53 *)

\* full_casebase[key] raises KeyError for a scored key that is not a case
build_raises(similarities, full_casebase) ==
    \E k \in KeySet(similarities) : ~Has(full_casebase, k)

QueryResultStep_build_unsorted(similarities, full_casebase) ==
    [similarities |-> similarities,
     ranking |-> Keys(similarities),
     casebase |-> [i \in DOMAIN similarities |->
                    <<similarities[i][1], Get(full_casebase, similarities[i][1])>>]]

\* a build that keeps the whole casebase
QueryResultStep_build_full(similarities, full_casebase) ==
    [similarities |-> similarities,
     ranking |-> similarities2ranking(similarities),
     casebase |-> full_casebase]

QueryResultStep_build(similarities, full_casebase) ==
    [similarities |-> similarities,
     ranking |-> similarities2ranking(similarities),
     casebase |-> [i \in DOMAIN similarities |->
                    <<similarities[i][1], Get(full_casebase, similarities[i][1])>>]]

CaseKeys == {1, 2, 3}
CaseVals == {10, 11}

\* similarity maps whose values are all bare numbers or all structured
SimMaps(K) ==
    {[i \in DOMAIN d |-> <<d[i][1], <<t, d[i][2]>>>>] :
        d \in Dicts(K, SimScalars), t \in SimTags}

InitStep ==
    /\ pc = "QueryResultStep.build"
    /\ args \in [similarities : SimMaps(CaseKeys),
                 full_casebase : {[i \in 1..n |-> <<i, 10 + (i % 2)>>] : n \in {2, 3}}]
    /\ NoLocals

CallBuildStep ==
    /\ pc = "QueryResultStep.build"
    /\ ~build_raises(args.similarities, args.full_casebase)
    /\ ret' = QueryResultStep_build(args.similarities, args.full_casebase)
    /\ outcome' = "ok"
    /\ pc' = "done"
    /\ UNCHANGED <<generator, requests, args, steps, current_casebases, current_batches, retrievers, reusers, calls, exported, pool>>

CallBuildStepRaises ==
    /\ pc = "QueryResultStep.build"
    /\ build_raises(args.similarities, args.full_casebase)
    /\ outcome' = "KeyError"
    /\ pc' = "done"
    /\ UNCHANGED <<generator, requests, args, ret, steps, current_casebases, current_batches, retrievers, reusers, calls, exported, pool>>

NextStep == CallBuildStep \/ CallBuildStepRaises

SpecStep == InitStep /\ [][NextStep]_vars

\* position of key k in the iteration order of dict d
IndexOf(d, k) == CHOOSE i \in DOMAIN d : d[i][1] = k

\* C6: the ranking of a step built from a similarity map is a permutation of
\* the map's keys, in descending order of unwrapped similarity, and keys of
\* equal similarity keep the map's iteration order.
C6_RankingSortedStable ==
    (pc = "done" /\ outcome = "ok") =>
        LET sims == args.similarities
            r == ret.ranking
        IN  /\ Len(r) = Len(sims)
            /\ Range(r) = KeySet(sims)
            /\ \A i \in 1..(Len(r) - 1) :
                   unpack_sim(Get(sims, r[i])) >= unpack_sim(Get(sims, r[i + 1]))
            /\ \A i, j \in DOMAIN r :
                   (i < j /\ unpack_sim(Get(sims, r[i])) = unpack_sim(Get(sims, r[j])))
                       => IndexOf(sims, r[i]) < IndexOf(sims, r[j])

\* the map {a: 0.2, b: 0.9, c: 0.9} of the specification, scaled: a tie that
\* is ranked above an earlier key, giving [b, c, a]
C6_Witness ==
    /\ pc = "done"
    /\ outcome = "ok"
    /\ Keys(args.similarities) = <<1, 2, 3>>
    /\ [i \in 1..3 |-> unpack_sim(args.similarities[i][2])] = <<0, 2, 2>>
    /\ ret.ranking = <<2, 3, 1>>

---------------------------------------------------------------------------
(* dropout, retrieval.py:215-258 *)

\* [key for key in ranking if keep(key)]
FilterKeys(ranking, Keep(_)) == SelectSeq(ranking, Keep)

\* a dropout whose limit is applied before the thresholds
dropout_filter_limit_first(self, similarities) ==
    LET ranking0 == similarities2ranking(similarities)
        ranking1 == IF IsNone(self.limit) THEN ranking0 ELSE Prefix(ranking0, self.limit[1])
        AboveMin(key) == unpack_sim(Get(similarities, key)) >= self.min_similarity[1]
        ranking2 == IF IsNone(self.min_similarity) THEN ranking1
                    ELSE FilterKeys(ranking1, AboveMin)
        BelowMax(key) == unpack_sim(Get(similarities, key)) <= self.max_similarity[1]
        ranking3 == IF IsNone(self.max_similarity) THEN ranking2
                    ELSE FilterKeys(ranking2, BelowMax)
    IN  [i \in DOMAIN ranking3 |-> <<ranking3[i], Get(similarities, ranking3[i])>>]

\* dropout._filter, retrieval.py:237-258
dropout_filter(self, similarities) ==
    LET ranking0 == similarities2ranking(similarities)
        AboveMin(key) == unpack_sim(Get(similarities, key)) >= self.min_similarity[1]
        ranking1 == IF IsNone(self.min_similarity) THEN ranking0
                    ELSE FilterKeys(ranking0, AboveMin)
        BelowMax(key) == unpack_sim(Get(similarities, key)) <= self.max_similarity[1]
        ranking2 == IF IsNone(self.max_similarity) THEN ranking1
                    ELSE FilterKeys(ranking1, BelowMax)
        ranking3 == IF IsNone(self.limit) THEN ranking2 ELSE Prefix(ranking2, self.limit[1])
    IN  [i \in DOMAIN ranking3 |-> <<ranking3[i], Get(similarities, ranking3[i])>>]

Optional(S) == {None} \cup {Some(x) : x \in S}

Limits == (0 - 2)..4

InitDropout ==
    /\ pc = "dropout._filter"
    /\ args \in [self : [limit : Optional(Limits),
                         min_similarity : Optional(SimScalars),
                         max_similarity : Optional(SimScalars)],
                 similarities : SimMaps(CaseKeys)]
    /\ NoLocals

CallFilter ==
    /\ pc = "dropout._filter"
    /\ ret' = dropout_filter(args.self, args.similarities)
    /\ outcome' = "ok"
    /\ pc' = "done"
    /\ UNCHANGED <<generator, requests, args, steps, current_casebases, current_batches, retrievers, reusers, calls, exported, pool>>

NextDropout == CallFilter

SpecDropout == InitDropout /\ [][NextDropout]_vars

\* the keys the claim describes, with the limit read as a count of entries:
\* ranking order, minus the keys below min, minus the keys above max, cut to
\* the first n
Min2(a, b) == IF a < b THEN a ELSE b

ExpectedKeys(self, similarities, n) ==
    LET InBounds(key) ==
            /\ IsNone(self.min_similarity)
                  \/ unpack_sim(Get(similarities, key)) >= self.min_similarity[1]
            /\ IsNone(self.max_similarity)
                  \/ unpack_sim(Get(similarities, key)) <= self.max_similarity[1]
        kept == SelectSeq(similarities2ranking(similarities), InBounds)
    IN  SubSeq(kept, 1, Min2(n, Len(kept)))

\* C3 as stated: the result is the ranked, thresholded map cut to its first
\* `limit` keys, so it has at most `limit` entries for any integer limit.
C3_AsStated ==
    (pc = "done" /\ outcome = "ok") =>
        LET self == args.self
            sims == args.similarities
            n == IF IsNone(self.limit) THEN Len(sims) ELSE self.limit[1]
        IN  /\ Keys(ret) = ExpectedKeys(self, sims, n)
            /\ \A i \in DOMAIN ret : ret[i][2] = Get(sims, ret[i][1])
            /\ ~IsNone(self.limit) => Len(ret) <= self.limit[1]

\* C3 amended: for a limit >= 0 (or no limit) the result is the ranked map
\* without the keys below min and above max, cut to its first `limit` keys,
\* every key with its original similarity value; a negative limit -m removes
\* the m lowest-ranked of the thresholded keys instead.  No key of the result
\* lies outside [min_similarity, max_similarity].
C3_DropoutFilter ==
    (pc = "done" /\ outcome = "ok") =>
        LET self == args.self
            sims == args.similarities
            all == ExpectedKeys(self, sims, Len(sims))
            n == IF IsNone(self.limit) THEN Len(sims)
                 ELSE IF self.limit[1] >= 0 THEN self.limit[1]
                 ELSE IF Len(all) + self.limit[1] < 0 THEN 0
                 ELSE Len(all) + self.limit[1]
        IN  /\ Keys(ret) = ExpectedKeys(self, sims, n)
            /\ \A i \in DOMAIN ret : ret[i][2] = Get(sims, ret[i][1])
            /\ (~IsNone(self.limit) /\ self.limit[1] >= 0) => Len(ret) <= self.limit[1]
            /\ \A i \in DOMAIN ret :
                  /\ IsNone(self.min_similarity)
                        \/ unpack_sim(ret[i][2]) >= self.min_similarity[1]
                  /\ IsNone(self.max_similarity)
                        \/ unpack_sim(ret[i][2]) <= self.max_similarity[1]

\* the example of the specification, scaled: {a: 0, b: 1, c: 2} with
\* min = 1, max = 1, limit = 1 gives {b: 1}
C3_Witness ==
    /\ pc = "done"
    /\ outcome = "ok"
    /\ args.self = [limit |-> Some(1), min_similarity |-> Some(1), max_similarity |-> Some(1)]
    /\ Keys(args.similarities) = <<1, 2, 3>>
    /\ [i \in 1..3 |-> unpack_sim(args.similarities[i][2])] = <<0, 1, 2>>
    /\ Keys(ret) = <<2>>

---------------------------------------------------------------------------
(* build, retrieval.py:291-373 *)

SimFuncs == {"equality", "order"}

\* the pairwise similarity functions handed to build: equality scores 1 for
\* equal values and 0 otherwise, as a bare number; order scores its first
\* argument against its second, as a structured value
similarity_func(name, x, y) ==
    IF name = "equality" THEN <<"float", IF x = y THEN 1 ELSE 0>>
    ELSE <<"struct", IF x > y THEN 2 ELSE IF x = y THEN 1 ELSE 0>>

\* helpers.SimSeqWrapper of a pairwise function: the function applied to
\* every pair of the sequence, in order
SimSeqWrapper(name, seq_pairs) ==
    [i \in DOMAIN seq_pairs |-> similarity_func(name, seq_pairs[i][1], seq_pairs[i][2])]

\* retrieval.py:351-356: the (idx, key) and (case, query) lists of one pair,
\* idx counted from 1 here
FlatIndexOf(idx, casebase) == [j \in DOMAIN casebase |-> <<idx, casebase[j][1]>>]
FlatPairsOf(casebase, query) == [j \in DOMAIN casebase |-> <<casebase[j][2], query>>]

flat_pairs_index(pairs) ==
    Concat([idx \in DOMAIN pairs |-> FlatIndexOf(idx, pairs[idx][1])])
flat_pairs(pairs) ==
    Concat([idx \in DOMAIN pairs |-> FlatPairsOf(pairs[idx][1], pairs[idx][2])])

\* zip(flat_pairs_index, flat_sims, strict=True) raises ValueError
reassemble_raises(index, flat_sims) == Len(index) # Len(flat_sims)

RECURSIVE ReassembleFrom(_, _, _, _)
ReassembleFrom(similarities, i, index, flat_sims) ==
    IF i > Len(index) THEN similarities
    ELSE LET idx == index[i][1]
             key == index[i][2]
         IN  ReassembleFrom(
                 [similarities EXCEPT ![idx] = Put(similarities[idx], key, flat_sims[i])],
                 i + 1, index, flat_sims)

\* a reassembly that pairs the scores with the keys in reverse
reassemble_reversed(n, index, flat_sims) ==
    ReassembleFrom([idx \in 1..n |-> <<>>], 1, index,
                   [i \in DOMAIN flat_sims |-> flat_sims[Len(flat_sims) + 1 - i]])

\* retrieval.py:352 and 370-371: one empty dict per pair, then
\* similarities[idx][key] = sim for the zipped index and scores
reassemble(n, index, flat_sims) ==
    ReassembleFrom([idx \in 1..n |-> <<>>], 1, index, flat_sims)

\* retrieval.py:367-368: the sequential path
build_sequential(self, pairs) ==
    reassemble(Len(pairs), flat_pairs_index(pairs),
               SimSeqWrapper(self.similarity_func, flat_pairs(pairs)))

BuildKeys == {1, 2}
Queries == {10, 11}
Processes == (0 - 1)..2
BuildPairs == SeqsUpTo(Dicts(BuildKeys, CaseVals) \X Queries, 2)

InitBuild ==
    /\ pc = "build.__call__"
    /\ args \in [self : [similarity_func : SimFuncs,
                         processes : Processes,
                         similarity_chunksize : 1..MaxChunk],
                 pairs : BuildPairs]
    /\ NoLocals

\* processes == 1: the whole call, computed in the calling process
BuildSequential ==
    /\ pc = "build.__call__"
    /\ args.self.processes = 1
    /\ LET index == flat_pairs_index(args.pairs)
           flat_sims == SimSeqWrapper(args.self.similarity_func, flat_pairs(args.pairs))
       IN  IF reassemble_raises(index, flat_sims)
           THEN outcome' = "ValueError" /\ ret' = ret
           ELSE outcome' = "ok" /\ ret' = reassemble(Len(args.pairs), index, flat_sims)
    /\ pc' = "done"
    /\ UNCHANGED <<generator, requests, args, steps, current_casebases, current_batches, retrievers, reusers, calls, exported, pool>>

\* processes != 1: the chunks are handed to a pool, retrieval.py:358-363
BuildPoolMap ==
    /\ pc = "build.__call__"
    /\ args.self.processes # 1
    /\ LET pair_chunks == chunkify(flat_pairs(args.pairs), args.self.similarity_chunksize)
       IN  pool' = [pool_processes |-> IF args.self.processes <= 0 THEN None
                                       ELSE Some(args.self.processes),
                    pair_chunks |-> pair_chunks,
                    sim_chunks |-> [c \in DOMAIN pair_chunks |-> None],
                    finished |-> <<>>,
                    state |-> "running"]
    /\ pc' = "pool.map"
    /\ UNCHANGED <<generator, requests, args, ret, outcome, steps, current_casebases, current_batches, retrievers, reusers, calls, exported>>

\* a worker process computes one chunk that is still to do; pool.map stores
\* the result at the chunk's own position
PoolWorker(c) ==
    /\ pc = "pool.map"
    /\ c \in DOMAIN pool.pair_chunks
    /\ IsNone(pool.sim_chunks[c])
    /\ pool' = [pool EXCEPT !.sim_chunks[c] =
                   Some(SimSeqWrapper(args.self.similarity_func, pool.pair_chunks[c])),
                             !.finished = Append(pool.finished, c)]
    /\ UNCHANGED <<generator, requests, pc, args, ret, outcome, steps, current_casebases, current_batches, retrievers, reusers, calls, exported>>

\* pool.map returns once every chunk has its result, retrieval.py:363
pool_map_returns(p) == \A c \in DOMAIN p.sim_chunks : ~IsNone(p.sim_chunks[c])

\* a join of the chunk results in the order the workers finished them
gather_completion_order(sim_chunks, finished) ==
    Concat([n \in DOMAIN finished |-> sim_chunks[finished[n]][1]])

\* retrieval.py:363-366: pool.map lists the chunk results by the position of
\* their chunk in pair_chunks, and the loop extends flat_sims with them in
\* that order; the order the workers finished in plays no part
gather(sim_chunks, finished) ==
    Concat([c \in DOMAIN sim_chunks |-> sim_chunks[c][1]])

\* every chunk is done: pool.map returns, the with block terminates the pool,
\* the chunks are joined in order and the scores are put back,
\* retrieval.py:362-373
BuildGather ==
    /\ pc = "pool.map"
    /\ pool_map_returns(pool)
    /\ LET index == flat_pairs_index(args.pairs)
           flat_sims == gather(pool.sim_chunks, pool.finished)
       IN  IF reassemble_raises(index, flat_sims)
           THEN outcome' = "ValueError" /\ ret' = ret
           ELSE outcome' = "ok" /\ ret' = reassemble(Len(args.pairs), index, flat_sims)
    /\ pool' = [pool EXCEPT !.state = "terminated"]
    /\ pc' = "done"
    /\ UNCHANGED <<generator, requests, args, steps, current_casebases, current_batches, retrievers, reusers, calls, exported>>

NextBuild ==
    \/ BuildSequential
    \/ BuildPoolMap
    \/ \E c \in 1..(2 * Cardinality(BuildKeys)) : PoolWorker(c)
    \/ BuildGather

SpecBuild == InitBuild /\ [][NextBuild]_vars

\* C10: the retriever made by build returns one map per input pair, in input
\* order; the map of a pair has the keys of that pair's casebase, in the
\* casebase's order, and at key k the value similarity_func(casebase[k],
\* query) for that pair's own query; this for every setting of processes
\* and every chunk size >= 1.
C10_BuildPairsScores ==
    (pc = "done") =>
        /\ outcome = "ok"
        /\ Len(ret) = Len(args.pairs)
        /\ \A idx \in DOMAIN args.pairs :
              LET casebase == args.pairs[idx][1]
                  query == args.pairs[idx][2]
              IN  /\ Keys(ret[idx]) = Keys(casebase)
                  /\ \A j \in DOMAIN casebase :
                        ret[idx][j][2] =
                            similarity_func(args.self.similarity_func, casebase[j][2], query)

\* a pool run with several chunks, one of them spanning two pairs, whose
\* pairs have different queries and one an empty casebase next to it
C10_Witness ==
    /\ pc = "done"
    /\ outcome = "ok"
    /\ args.self.processes # 1
    /\ args.self.similarity_chunksize = 2
    /\ Len(args.pairs) = 2
    /\ Len(args.pairs[1][1]) = 1
    /\ Len(args.pairs[2][1]) = 2
    /\ args.pairs[1][2] # args.pairs[2][2]
    /\ Len(pool.pair_chunks) = 2
    /\ ret[2][1][2] # ret[2][2][2]

\* the sequential path on a batch that holds an empty casebase
C10_WitnessSequential ==
    /\ pc = "done"
    /\ outcome = "ok"
    /\ args.self.processes = 1
    /\ Len(args.pairs) = 2
    /\ args.pairs[1][1] = <<>>
    /\ ret[1] = <<>>
    /\ Len(ret[2]) = 2

\* C11: in the pool path of build, whatever order the workers finish their
\* chunks in, the call returns only after every chunk has been computed,
\* each once, and the pool has been terminated; the chunk results are joined
\* in the order the chunks were submitted, so the slot (idx, key) of the
\* result holds the score of that pair's own case at key and that pair's own
\* query; while the pool is at work nothing has been returned.
C11_PoolGatherInOrder ==
    /\ (pc = "pool.map") =>
          /\ pool.state = "running"
          /\ ret = <<>>
          /\ outcome = "running"
    /\ (pc = "done" /\ args.self.processes # 1) =>
          /\ pool.state = "terminated"
          /\ pool.pair_chunks =
                 chunkify(flat_pairs(args.pairs), args.self.similarity_chunksize)
          /\ \A c \in DOMAIN pool.pair_chunks :
                /\ ~IsNone(pool.sim_chunks[c])
                /\ Cardinality({n \in DOMAIN pool.finished : pool.finished[n] = c}) = 1
          /\ outcome = "ok"
          /\ DOMAIN ret = DOMAIN args.pairs
          /\ \A idx \in DOMAIN args.pairs :
                /\ DOMAIN ret[idx] = DOMAIN args.pairs[idx][1]
                /\ \A j \in DOMAIN args.pairs[idx][1] :
                      ret[idx][j] =
                          <<args.pairs[idx][1][j][1],
                            similarity_func(args.self.similarity_func,
                                            args.pairs[idx][1][j][2],
                                            args.pairs[idx][2])>>

\* a pool run of three chunks whose workers finished last chunk first, over
\* two pairs with different queries, where the scores of the first and the
\* last chunk differ
C11_Witness ==
    /\ pc = "done"
    /\ outcome = "ok"
    /\ args.self.processes # 1
    /\ Len(args.pairs) = 2
    /\ args.pairs[1][2] # args.pairs[2][2]
    /\ pool.finished = <<3, 2, 1>>
    /\ pool.sim_chunks[1] # pool.sim_chunks[3]
    /\ pool.state = "terminated"

---------------------------------------------------------------------------
(* cohere and voyageai, retrieval.py:380-438 and 449-503 *)

RerankBackends == {"cohere", "voyageai"}

\* the rerank service the client talks to: a document that equals the query
\* is relevant (1), any other is not (0)
rerank_relevance(document, query) == IF document = query THEN 1 ELSE 0

\* the response of the service to one request: one result per document,
\* holding the document's 0-based index in the request and its relevance,
\* the most relevant first and documents of equal relevance in request order
rerank_response(documents, query) ==
    LET idxs == [i \in DOMAIN documents |-> i - 1]
        Hit(idx) == rerank_relevance(documents[idx + 1], query) = 1
        Miss(idx) == ~Hit(idx)
        ordered == SelectSeq(idxs, Hit) \o SelectSeq(idxs, Miss)
    IN  [n \in DOMAIN ordered |->
            [index |-> ordered[n],
             relevance_score |->
                 <<"float", rerank_relevance(documents[ordered[n] + 1], query)>>]]

\* retrieval.py:433-438 and 498-503: key_index maps the 0-based position of
\* a case to its key; the result holds, in the order of the response, the
\* key of every result with its relevance score
retrieve_single(casebase, results) ==
    LET key_index == Keys(casebase)
    IN  [n \in DOMAIN results |->
            <<key_index[results[n].index + 1], results[n].relevance_score>>]

\* the request of one pair, as _retrieve_single sends it, retrieval.py:425-432
\* and 491-497: the pair's query and the values of its casebase as documents
rerank_request(pair) ==
    [state |-> "awaiting",
     query |-> pair[2],
     documents |-> Values(pair[1]),
     result |-> None,
     error |-> None]

\* a list of the results in the order the requests completed
gather_results_completion_order(reqs, finished) ==
    [n \in DOMAIN finished |-> reqs[finished[n]].result[1]]

\* asyncio.gather, retrieval.py:415-417 and 482-484: the results of the
\* awaitables in the order the awaitables were passed
gather_results(reqs, finished) ==
    [i \in DOMAIN reqs |-> reqs[i].result[1]]

RerankCasebases ==
    {<<>>, <<<<1, 10>>>>, <<<<1, 10>>, <<2, 11>>>>, <<<<2, 11>>, <<1, 10>>>>}

\* a call of the retriever: the pairs, and the requests the service will
\* answer with an error, by position
InitRerank ==
    /\ pc = "rerank.__call__"
    /\ args \in [self : [backend : RerankBackends],
                 pairs : SeqsUpTo(RerankCasebases \X Queries, MaxQueries),
                 fails : SUBSET (1..MaxQueries)]
    /\ args.fails \subseteq DOMAIN args.pairs
    /\ NoLocals

\* asyncio.run(self._retrieve(pairs)): gather wraps one _retrieve_single per
\* pair in a task, and every task runs up to its await of the client's
\* rerank call before the loop handles any response
RerankRun ==
    /\ pc = "rerank.__call__"
    /\ requests' = [tasks |-> [i \in DOMAIN args.pairs |-> rerank_request(args.pairs[i])],
                    finished |-> <<>>]
    /\ pc' = "asyncio.gather"
    /\ UNCHANGED <<generator, args, ret, outcome, steps, current_casebases, current_batches,
                   retrievers, reusers, calls, exported, pool>>

\* the response of one request arrives: its _retrieve_single returns
RequestCompletes(i) ==
    /\ pc = "asyncio.gather"
    /\ i \in DOMAIN requests.tasks
    /\ requests.tasks[i].state = "awaiting"
    /\ i \notin args.fails
    /\ LET t == requests.tasks[i]
           result == retrieve_single(args.pairs[i][1],
                                     rerank_response(t.documents, t.query))
       IN  requests' = [tasks |-> [requests.tasks EXCEPT
                                      ![i] = [t EXCEPT !.state = "completed",
                                                       !.result = Some(result)]],
                        finished |-> Append(requests.finished, i)]
    /\ UNCHANGED <<generator, pc, args, ret, outcome, steps, current_casebases, current_batches,
                   retrievers, reusers, calls, exported, pool>>

\* the client raises for one request: its _retrieve_single raises
RequestFails(i) ==
    /\ pc = "asyncio.gather"
    /\ i \in DOMAIN requests.tasks
    /\ requests.tasks[i].state = "awaiting"
    /\ i \in args.fails
    /\ requests' = [tasks |-> [requests.tasks EXCEPT
                                  ![i] = [@ EXCEPT !.state = "failed",
                                                   !.error = Some("ApiError")]],
                    finished |-> Append(requests.finished, i)]
    /\ UNCHANGED <<generator, pc, args, ret, outcome, steps, current_casebases, current_batches,
                   retrievers, reusers, calls, exported, pool>>

\* every request has completed: gather returns the list of the results and
\* asyncio.run returns it
GatherReturn ==
    /\ pc = "asyncio.gather"
    /\ \A i \in DOMAIN requests.tasks : requests.tasks[i].state = "completed"
    /\ ret' = gather_results(requests.tasks, requests.finished)
    /\ outcome' = "ok"
    /\ pc' = "done"
    /\ UNCHANGED <<generator, args, steps, current_casebases, current_batches,
                   retrievers, reusers, calls, exported, pool, requests>>

\* a request has failed: gather hands its error to _retrieve at once, while
\* other requests may still be awaited, and _retrieve raises; asyncio.run
\* cancels every task that is still awaiting its response and raises the
\* error. A cancelled request has neither a result nor an error of its own.
GatherRaise ==
    /\ pc = "asyncio.gather"
    /\ \E i \in DOMAIN requests.tasks : requests.tasks[i].state = "failed"
    /\ requests' = [requests EXCEPT !.tasks =
                       [i \in DOMAIN requests.tasks |->
                           IF requests.tasks[i].state = "awaiting"
                           THEN [requests.tasks[i] EXCEPT !.state = "cancelled"]
                           ELSE requests.tasks[i]]]
    /\ outcome' = "ApiError"
    /\ pc' = "done"
    /\ UNCHANGED <<generator, args, ret, steps, current_casebases, current_batches,
                   retrievers, reusers, calls, exported, pool>>

NextRerank ==
    \/ RerankRun
    \/ \E i \in 1..MaxQueries : RequestCompletes(i)
    \/ \E i \in 1..MaxQueries : RequestFails(i)
    \/ GatherReturn
    \/ GatherRaise

SpecRerank == InitRerank /\ [][NextRerank]_vars

\* the result the retriever owes pair i
RerankResultOf(pair) ==
    retrieve_single(pair[1], rerank_response(Values(pair[1]), pair[2]))

\* one request per pair, each with its pair's query and documents
OneRequestPerPair ==
    /\ DOMAIN requests.tasks = DOMAIN args.pairs
    /\ \A i \in DOMAIN args.pairs :
          /\ requests.tasks[i].query = args.pairs[i][2]
          /\ requests.tasks[i].documents = Values(args.pairs[i][1])

\* what the finished call gives back: one result per pair in the order of
\* the pairs when no request fails, and an error and nothing else when one
\* does
AllOrNothing ==
    /\ (args.fails = {}) =>
          /\ outcome = "ok"
          /\ DOMAIN ret = DOMAIN args.pairs
          /\ \A i \in DOMAIN args.pairs : ret[i] = RerankResultOf(args.pairs[i])
    /\ (args.fails # {}) =>
          /\ outcome = "ApiError"
          /\ ret = <<>>

\* C12 as stated: one call of cohere / voyageai starts one rerank request per
\* pair, all of them in flight before anything is returned; when the call
\* ends every request has completed or failed; a call that returns returns
\* the results in the order of the pairs; if any request fails the call
\* fails and returns nothing.
C12_AsStated ==
    /\ (pc = "asyncio.gather") =>
          /\ OneRequestPerPair
          /\ ret = <<>>
          /\ outcome = "running"
    /\ (pc = "done") =>
          /\ OneRequestPerPair
          /\ \A i \in DOMAIN args.pairs :
                requests.tasks[i].state \in {"completed", "failed"}
          /\ AllOrNothing

\* C12: one call of cohere / voyageai starts one rerank request per pair,
\* all of them in flight before anything is returned. A call in which no
\* request fails ends only when every request has completed, and returns one
\* result per pair in the order of the pairs, whatever order the requests
\* completed in. A call in which a request fails ends with the error and
\* returns nothing; it does not wait for the other requests: when it ends
\* every request has completed, failed, or been cancelled while in flight,
\* at least one has failed, and none is still awaited.
C12_RerankGather ==
    /\ (pc = "asyncio.gather") =>
          /\ OneRequestPerPair
          /\ \A i \in DOMAIN args.pairs :
                requests.tasks[i].state \in {"awaiting", "completed", "failed"}
          /\ ret = <<>>
          /\ outcome = "running"
    /\ (pc = "done") =>
          /\ OneRequestPerPair
          /\ \A i \in DOMAIN args.pairs :
                /\ requests.tasks[i].state \in {"completed", "failed", "cancelled"}
                /\ requests.tasks[i].state = "completed" <=> ~IsNone(requests.tasks[i].result)
                /\ requests.tasks[i].state = "failed" <=> ~IsNone(requests.tasks[i].error)
                /\ requests.tasks[i].state = "failed" => i \in args.fails
                /\ requests.tasks[i].state = "cancelled" =>
                      /\ \A n \in DOMAIN requests.finished : requests.finished[n] # i
                      /\ \E f \in DOMAIN args.pairs : requests.tasks[f].state = "failed"
          /\ (outcome = "ok") =>
                \A i \in DOMAIN args.pairs : requests.tasks[i].state = "completed"
          /\ (outcome # "ok") =>
                \E f \in DOMAIN args.pairs : requests.tasks[f].state = "failed"
          /\ AllOrNothing

\* a failed call of two requests: one failed, the other was still in flight
\* and was cancelled; nothing is returned
C12_Witness ==
    /\ pc = "done"
    /\ outcome = "ApiError"
    /\ Len(args.pairs) = 2
    /\ requests.tasks[2].state = "failed"
    /\ requests.tasks[1].state = "cancelled"
    /\ requests.finished = <<2>>
    /\ ret = <<>>

\* two requests with different answers, the second completed first, and the
\* answer of the first lists its keys in the order of the response
C12_WitnessOrder ==
    /\ pc = "done"
    /\ outcome = "ok"
    /\ Len(args.pairs) = 2
    /\ requests.finished = <<2, 1>>
    /\ ret[1] # ret[2]
    /\ Keys(ret[1]) = <<2, 1>>
    /\ Keys(args.pairs[1][1]) = <<1, 2>>

\* a failed call: one request completed, one failed, nothing returned
C12_WitnessFailure ==
    /\ pc = "done"
    /\ outcome = "ApiError"
    /\ Len(args.pairs) = 2
    /\ requests.tasks[1].state = "completed"
    /\ requests.tasks[2].error = Some("ApiError")
    /\ ret = <<>>

---------------------------------------------------------------------------
(* Retriever functions handed to apply_queries *)

\* dropout(build(similarity_func), limit, min_similarity, max_similarity);
\* with no limit and no thresholds it returns what build returns
Dropout(sf, limit, min) ==
    [kind |-> "dropout", similarity_func |-> sf, limit |-> limit,
     min_similarity |-> min, max_similarity |-> None, keys |-> <<>>, delta |-> 0]

\* a retriever of the caller that scores the keys `keys` for every pair,
\* whatever casebase it is given
Fixed(keys) ==
    [kind |-> "fixed", similarity_func |-> "equality", limit |-> None,
     min_similarity |-> None, max_similarity |-> None, keys |-> keys, delta |-> 0]

\* a retriever of the caller that returns one result less (delta = -1) or
\* one result more (delta = 1) than it was given pairs
Resized(r, delta) == [r EXCEPT !.delta = delta]

\* transpose(conversion_func, r), retrieval.py:261-271, around the dropout
\* retriever r
Transposed(r) == [r EXCEPT !.kind = "transpose"]

\* a key that is no key of any input casebase
ForeignKey == CHOOSE k \in CaseKeys : k \notin BuildKeys

RetrieverFuncs ==
    {Dropout("equality", None, None),
     Dropout("equality", None, Some(1)),
     Dropout("order", Some(1), None),
     Fixed(<<1>>),
     Fixed(<<ForeignKey>>),
     Resized(Dropout("equality", None, None), 0 - 1),
     Resized(Dropout("equality", None, None), 1),
     Resized(Fixed(<<ForeignKey>>), 0 - 1),
     Transposed(Dropout("equality", None, Some(1)))}

\* dropout.__call__, retrieval.py:231-235, around a build retriever
dropout_call(self, pairs) ==
    LET inner == build_sequential(self, pairs)
    IN  [i \in DOMAIN inner |-> dropout_filter(self, inner[i])]

\* the conversion function handed to transpose: a case value or a query is
\* turned into its tens, so that 10 and 11 convert to the same value
conversion_func(value) == value \div 10

\* retrieval.py:277-287: the pairs handed to the inner retriever, every case
\* value and the query converted, the keys kept
transpose_pairs(pairs) ==
    [i \in DOMAIN pairs |->
        <<[j \in DOMAIN pairs[i][1] |->
              <<pairs[i][1][j][1], conversion_func(pairs[i][1][j][2])>>],
          conversion_func(pairs[i][2])>>]

\* transpose.__call__, retrieval.py:273-288, around a dropout retriever
transpose_call(self, pairs) == dropout_call(self, transpose_pairs(pairs))

\* the result list of retriever r for `pairs`
CallRetriever(r, pairs) ==
    LET base == IF r.kind = "dropout" THEN dropout_call(r, pairs)
                ELSE IF r.kind = "transpose" THEN transpose_call(r, pairs)
                ELSE [i \in DOMAIN pairs |->
                        [j \in DOMAIN r.keys |-> <<r.keys[j], <<"float", 1>>>>]]
    IN  IF r.delta < 0 THEN Prefix(base, r.delta)
        ELSE IF r.delta > 0 THEN Append(base, <<<<ForeignKey, <<"float", 1>>>>>>)
        ELSE base

\* helpers.get_metadata: the metadata property of dropout (retrieval.py:222-229),
\* an empty dict for a function without one
get_metadata(r) ==
    IF r.kind = "dropout"
    THEN <<<<"limit", r.limit>>, <<"min_similarity", r.min_similarity>>,
           <<"max_similarity", r.max_similarity>>>>
    ELSE <<>>

---------------------------------------------------------------------------
(* apply_queries, apply_query, retrieval.py:116-200 *)

QueryKeyNames == <<"q1", "q2", "q3", "q4">>

\* the `retrievers` argument: a sequence of retrievers or one retriever
RetrieverArgs ==
    {[type |-> "Sequence", value |-> rs] : rs \in SeqsUpTo(RetrieverFuncs, MaxRetrievers)}
    \cup {[type |-> "RetrieverFunc", value |-> <<r>>] : r \in RetrieverFuncs}

\* no case, one case, two cases in either order, two equal cases
RetrievalCasebases ==
    {<<>>,
     <<<<1, 10>>>>,
     <<<<1, 10>>, <<2, 11>>>>,
     <<<<2, 11>>, <<1, 10>>>>,
     <<<<1, 10>>, <<2, 10>>>>}

InitRetrieval ==
    /\ pc \in {"apply_queries", "apply_query"}
    /\ args \in [casebase : RetrievalCasebases,
                 queries : {[i \in DOMAIN qs |-> <<QueryKeyNames[i], qs[i]>>] :
                               qs \in SeqsUpTo(Queries, MaxQueries)},
                 retrievers : RetrieverArgs]
    /\ pc = "apply_query" => Len(args.queries) = 1
    /\ NoLocals

\* apply_query, retrieval.py:188-197: the one query goes under "default"
ApplyQuery ==
    /\ pc = "apply_query"
    /\ args' = [args EXCEPT !.queries = <<<<"default", args.queries[1][2]>>>>]
    /\ pc' = "apply_queries"
    /\ UNCHANGED <<generator, requests, ret, outcome, steps, current_casebases, current_batches,
                   retrievers, reusers, calls, exported, pool>>

\* retrieval.py:152-153 without the wrapping of a lone retriever
as_sequence_unwrapped(arg) == IF arg.type = "Sequence" THEN arg.value ELSE <<>>

\* retrieval.py:152-153: a retriever that is no sequence becomes [retriever]
as_sequence(arg) == IF arg.type = "Sequence" THEN arg.value ELSE <<arg.value[1]>>

\* retrieval.py:152-159
ApplyQueriesEnter ==
    /\ pc = "apply_queries"
    /\ retrievers' = as_sequence(args.retrievers)
    /\ IF Len(retrievers') > 0
       THEN /\ current_casebases' =
                   [i \in DOMAIN args.queries |-> <<args.queries[i][1], args.casebase>>]
            /\ pc' = "for retriever_func"
            /\ outcome' = outcome
       ELSE /\ outcome' = "AssertionError"
            /\ pc' = "done"
            /\ current_casebases' = current_casebases
    /\ UNCHANGED <<generator, requests, args, ret, steps, current_batches, reusers, calls, exported, pool>>

\* pairs that share the casebase of the first query
retriever_pairs_shared(queries, casebases) ==
    [i \in DOMAIN queries |-> <<casebases[1][2], queries[i][2]>>]

\* retrieval.py:162-167: the pairs handed to the retriever
retriever_pairs(queries, casebases) ==
    [i \in DOMAIN queries |-> <<Get(casebases, queries[i][1]), queries[i][2]>>]

\* a pairing that compares the two lengths before it builds any step
step_error_length_first(queries, queries_results, casebase) ==
    IF Len(queries) # Len(queries_results) THEN "ValueError"
    ELSE IF \E i \in DOMAIN queries : build_raises(queries_results[i], casebase)
         THEN "KeyError"
    ELSE "ok"

\* retrieval.py:169-177: the error of building the step's queries, if any.
\* The zip yields a (query key, result) pair, the step of that pair is built,
\* and only when one side runs out is the other side's length looked at.
step_error(queries, queries_results, casebase) ==
    LET n == Min2(Len(queries), Len(queries_results))
    IN  IF \E i \in 1..n : build_raises(queries_results[i], casebase) THEN "KeyError"
        ELSE IF Len(queries) # Len(queries_results) THEN "ValueError"
        ELSE "ok"

\* steps built from the casebase as a transposing retriever sees it
step_queries_converted(queries, queries_results, casebase) ==
    [i \in DOMAIN queries |->
        <<queries[i][1],
          QueryResultStep_build(queries_results[i],
                                transpose_pairs(<<<<casebase, queries[i][2]>>>>)[1][1])>>]

\* retrieval.py:169-177
step_queries(queries, queries_results, casebase) ==
    [i \in DOMAIN queries |->
        <<queries[i][1], QueryResultStep_build(queries_results[i], casebase)>>]

\* a loop that hands every retriever the whole input casebase
next_casebases_full(queries, step) ==
    [i \in DOMAIN queries |-> <<queries[i][1], args.casebase>>]

\* retrieval.py:181-183
next_casebases(queries, step) ==
    [i \in DOMAIN queries |-> <<queries[i][1], Get(step.queries, queries[i][1]).casebase>>]

\* one pass of the loop, retrieval.py:161-183
ApplyQueriesStep ==
    /\ pc = "for retriever_func"
    /\ Len(steps) < Len(retrievers)
    /\ LET retriever_func == retrievers[Len(steps) + 1]
           pairs == retriever_pairs(args.queries, current_casebases)
           queries_results == CallRetriever(retriever_func, pairs)
           err == step_error(args.queries, queries_results, args.casebase)
       IN  /\ calls' = Append(calls, [func |-> Len(steps) + 1, pairs |-> pairs])
           /\ IF err = "ok"
              THEN LET step == [queries |-> step_queries(args.queries, queries_results,
                                                         args.casebase),
                                metadata |-> get_metadata(retriever_func)]
                   IN  /\ steps' = Append(steps, step)
                       /\ current_casebases' = next_casebases(args.queries, step)
                       /\ UNCHANGED <<pc, outcome>>
              ELSE /\ outcome' = err
                   /\ pc' = "done"
                   /\ UNCHANGED <<steps, current_casebases>>
    /\ UNCHANGED <<generator, requests, args, ret, current_batches, retrievers, reusers, exported, pool>>

\* retrieval.py:185
ApplyQueriesReturn ==
    /\ pc = "for retriever_func"
    /\ Len(steps) = Len(retrievers)
    /\ ret' = [steps |-> steps]
    /\ outcome' = "ok"
    /\ pc' = "done"
    /\ UNCHANGED <<generator, requests, args, steps, current_casebases, current_batches, retrievers, reusers,
                   calls, exported, pool>>

---------------------------------------------------------------------------
(* Result.as_dict, QueryResultStep.as_dict, retrieval.py:49-53 and 106-113 *)

\* del d[k]
Del(d, k) ==
    LET Other(e) == e[1] # k
    IN  SelectSeq(d, Other)

\* dataclasses.asdict on a similarity value: a bare number is copied; a
\* structured value is a dataclass with the field `value`, and asdict turns
\* a dataclass it meets inside a dict into the dict of its fields
asdict_sim(sim) ==
    IF sim[1] = "struct" THEN <<"dict", <<<<"value", sim[2]>>>>>> ELSE sim

\* dataclasses.asdict on the similarities of a step: the same keys in the
\* same order, every value converted
asdict_similarities(similarities) ==
    [i \in DOMAIN similarities |-> <<similarities[i][1], asdict_sim(similarities[i][2])>>]

\* dataclasses.asdict of a QueryResultStep: a dict of its fields, in field
\* order, holding converted copies of the field values
asdict_query(q) ==
    <<<<"similarities", asdict_similarities(q.similarities)>>,
      <<"ranking", q.ranking>>,
      <<"casebase", q.casebase>>>>

asdict_step(step) ==
    <<<<"queries", [i \in DOMAIN step.queries |->
                      <<step.queries[i][1], asdict_query(step.queries[i][2])>>]>>,
      <<"metadata", step.metadata>>>>

asdict_result(result) ==
    <<<<"steps", [i \in DOMAIN result.steps |-> asdict_step(result.steps[i])]>>>>

\* retrieval.py:49-53
QueryResultStep_as_dict(q) == Del(asdict_query(q), "casebase")

\* an export that deletes nothing
Result_as_dict_keep(result) == asdict_result(result)

\* retrieval.py:106-113
Result_as_dict(result) ==
    LET x == asdict_result(result)
        NoCasebase(step) ==
            <<<<"queries", [i \in DOMAIN step[1][2] |->
                              <<step[1][2][i][1], Del(step[1][2][i][2], "casebase")>>]>>,
              step[2]>>
    IN  <<<<"steps", [i \in DOMAIN x[1][2] |-> NoCasebase(x[1][2][i])]>>>>

AsDict ==
    /\ pc = "done"
    /\ outcome = "ok"
    /\ "casebase" \in DOMAIN args
    /\ exported' = Result_as_dict(ret)
    /\ pc' = "exported"
    /\ UNCHANGED <<generator, requests, args, ret, outcome, steps, current_casebases, current_batches,
                   retrievers, reusers, calls, pool>>

---------------------------------------------------------------------------
(* Reuser functions handed to apply_batches *)

\* score:    the casebase as given, every case scored against the query
\* adapt:    every case replaced by the query, and scored
\* unscored: the casebase as given and an empty similarity map
\* prune:    the casebase without its last case, the rest scored
\* delta as for retrievers
ReuserFuncs ==
    {[kind |-> "score", delta |-> 0],
     [kind |-> "adapt", delta |-> 0],
     [kind |-> "unscored", delta |-> 0],
     [kind |-> "prune", delta |-> 0],
     [kind |-> "score", delta |-> 0 - 1],
     [kind |-> "score", delta |-> 1]}

ReuseOne(kind, casebase, query) ==
    LET adapted == IF kind = "adapt" THEN [j \in DOMAIN casebase |-> <<casebase[j][1], query>>]
                   ELSE IF kind = "prune" THEN Prefix(casebase, 0 - 1)
                   ELSE casebase
        sims == IF kind = "unscored" THEN <<>>
                ELSE [j \in DOMAIN adapted |->
                        <<adapted[j][1], similarity_func("equality", adapted[j][2], query)>>]
    IN  <<adapted, sims>>

\* the result list of reuser u for `pairs`: (adapted casebase, similarities)
CallReuser(u, pairs) ==
    LET base == [i \in DOMAIN pairs |-> ReuseOne(u.kind, pairs[i][1], pairs[i][2])]
    IN  IF u.delta < 0 THEN Prefix(base, u.delta)
        ELSE IF u.delta > 0 THEN Append(base, <<<<>>, <<>>>>)
        ELSE base

---------------------------------------------------------------------------
(* apply_batches, reuse/apply.py:36-65 *)

\* model.QueryResultStep.build as the reuse pipeline calls it (apply.py:49-53):
\* the ranking of the similarities, the adapted casebase whole, and the query
QueryResultStep_build_reuse(similarities, casebase, query) ==
    [similarities |-> similarities,
     ranking |-> similarities2ranking(similarities),
     casebase |-> casebase,
     query |-> query]

ReuseCasebases == {<<>>, <<<<1, 10>>>>, <<<<2, 11>>, <<1, 10>>>>}

ReuserArgs ==
    {[type |-> "Sequence", value |-> us] : us \in SeqsUpTo(ReuserFuncs, MaxRetrievers)}
    \cup {[type |-> "ReuserFunc", value |-> <<u>>] : u \in ReuserFuncs}

InitReuse ==
    /\ pc = "apply_batches"
    /\ args \in [batch : {[i \in DOMAIN b |-> <<QueryKeyNames[i], b[i]>>] :
                             b \in SeqsUpTo(ReuseCasebases \X Queries, MaxQueries)},
                 reusers : ReuserArgs]
    /\ NoLocals

\* apply.py:40-41
reusers_as_sequence(arg) == IF arg.type = "Sequence" THEN arg.value ELSE <<arg.value[1]>>

\* apply.py:40-44
ApplyBatchesEnter ==
    /\ pc = "apply_batches"
    /\ reusers' = reusers_as_sequence(args.reusers)
    /\ current_batches' = args.batch
    /\ pc' = "for reuser"
    /\ UNCHANGED <<generator, requests, args, ret, outcome, steps, current_casebases, retrievers, calls,
                   exported, pool>>

\* a chaining that hands on the query a step would put first in the batch
reuse_step_queries_first(batches, queries_results) ==
    [i \in DOMAIN batches |->
        <<batches[i][1],
          QueryResultStep_build_reuse(queries_results[i][2], queries_results[i][1],
                                      batches[1][2][2])>>]

\* apply.py:48-57
reuse_step_queries(batches, queries_results) ==
    [i \in DOMAIN batches |->
        <<batches[i][1],
          QueryResultStep_build_reuse(queries_results[i][2], queries_results[i][1],
                                      batches[i][2][2])>>]

\* apply.py:60-63
next_batches(batches, queries) ==
    [i \in DOMAIN batches |->
        <<batches[i][1],
          <<Get(queries, batches[i][1]).casebase, Get(queries, batches[i][1]).query>>>>]

\* one pass of the loop, apply.py:46-63
ApplyBatchesStep ==
    /\ pc = "for reuser"
    /\ Len(steps) < Len(reusers)
    /\ LET reuser == reusers[Len(steps) + 1]
           pairs == Values(current_batches)
           queries_results == CallReuser(reuser, pairs)
       IN  /\ calls' = Append(calls, [func |-> Len(steps) + 1, pairs |-> pairs])
           /\ IF Len(queries_results) = Len(current_batches)
              THEN LET queries == reuse_step_queries(current_batches, queries_results)
                   IN  /\ steps' = Append(steps, [queries |-> queries, metadata |-> <<>>])
                       /\ current_batches' = next_batches(current_batches, queries)
                       /\ UNCHANGED <<pc, outcome>>
              ELSE /\ outcome' = "ValueError"
                   /\ pc' = "done"
                   /\ UNCHANGED <<steps, current_batches>>
    /\ UNCHANGED <<generator, requests, args, ret, current_casebases, retrievers, reusers, exported, pool>>

\* apply.py:65
ApplyBatchesReturn ==
    /\ pc = "for reuser"
    /\ Len(steps) = Len(reusers)
    /\ ret' = [steps |-> steps]
    /\ outcome' = "ok"
    /\ pc' = "done"
    /\ UNCHANGED <<generator, requests, args, steps, current_casebases, current_batches, retrievers, reusers,
                   calls, exported, pool>>

---------------------------------------------------------------------------
(* The two pipelines *)

Init == InitRetrieval \/ InitReuse

Next ==
    \/ ApplyQuery
    \/ ApplyQueriesEnter
    \/ ApplyQueriesStep
    \/ ApplyQueriesReturn
    \/ AsDict
    \/ ApplyBatchesEnter
    \/ ApplyBatchesStep
    \/ ApplyBatchesReturn

Spec == Init /\ [][Next]_vars

IsRetrieval == "casebase" \in DOMAIN args
IsReuse == "batch" \in DOMAIN args

Finished == pc \in {"done", "exported"}

\* the result list the n-th invoked retriever / reuser returned
ResultsOfCall(n) ==
    IF IsRetrieval THEN CallRetriever(retrievers[n], calls[n].pairs)
    ELSE CallReuser(reusers[n], calls[n].pairs)

\* the step's record of query number j
StepQuery(step, j) == step.queries[j][2]

---------------------------------------------------------------------------
(* Claims about the pipelines *)

\* C1 as stated: a finished retrieval with N >= 1 retrievers has N steps and,
\* for every query and every step after the first, the step's casebase keys
\* are among the previous step's casebase keys, whatever the retrievers
\* return.
C1_AsStated ==
    (IsRetrieval /\ Finished /\ outcome = "ok") =>
        /\ Len(ret.steps) = Len(args.retrievers.value)
        /\ \A i \in 2..Len(ret.steps) : \A j \in DOMAIN args.queries :
              KeySet(StepQuery(ret.steps[i], j).casebase)
                  \subseteq KeySet(StepQuery(ret.steps[i - 1], j).casebase)

\* C1 amended: a finished retrieval with N >= 1 retrievers has N steps; every
\* step's casebase keys are among the keys of the input casebase; and for
\* every query and every step after the first whose retriever scored only
\* keys of the casebase it was handed, the step's casebase keys are among the
\* previous step's casebase keys.
C1_Narrowing ==
    (IsRetrieval /\ Finished /\ outcome = "ok") =>
        /\ Len(ret.steps) = Len(args.retrievers.value)
        /\ Len(ret.steps) >= 1
        /\ \A i \in DOMAIN ret.steps : \A j \in DOMAIN args.queries :
              /\ KeySet(StepQuery(ret.steps[i], j).casebase) \subseteq KeySet(args.casebase)
              /\ (i > 1 /\ KeySet(ResultsOfCall(i)[j]) \subseteq KeySet(calls[i].pairs[j][1]))
                    => KeySet(StepQuery(ret.steps[i], j).casebase)
                           \subseteq KeySet(StepQuery(ret.steps[i - 1], j).casebase)

\* two steps, the second of a thresholding retriever that keeps a proper,
\* non-empty part of what the first step kept for some query
C1_Witness ==
    /\ IsRetrieval
    /\ Finished
    /\ outcome = "ok"
    /\ Len(ret.steps) = 2
    /\ retrievers[2].kind = "dropout"
    /\ \E j \in DOMAIN args.queries :
          /\ StepQuery(ret.steps[2], j).casebase # <<>>
          /\ KeySet(StepQuery(ret.steps[2], j).casebase)
                 # KeySet(StepQuery(ret.steps[1], j).casebase)

\* a call of a retriever or reuser whose result list is shorter or longer
\* than the list of pairs it was given
Mismatched(n) == Len(ResultsOfCall(n)) # Len(calls[n].pairs)

\* in retrieval, a result that is paired with a query key and scores a key
\* that is no key of the input casebase
PairedUnknownKey(n) ==
    /\ IsRetrieval
    /\ \E j \in 1..Min2(Len(calls[n].pairs), Len(ResultsOfCall(n))) :
          build_raises(ResultsOfCall(n)[j], args.casebase)

\* C2 as stated: for a batch of one or more pairs, a retriever or reuser
\* whose result list is shorter or longer than its pair list makes the call
\* fail with the shape-mismatch error, and no Result is returned.
C2_AsStated ==
    \A n \in DOMAIN calls :
        (Len(calls[n].pairs) >= 1 /\ Mismatched(n)) =>
            /\ pc = "done"
            /\ outcome = "ValueError"
            /\ ret = <<>>

\* C2 amended: for a batch of one or more pairs, a retriever or reuser whose
\* result list is shorter or longer than its pair list makes the call fail,
\* and no Result is returned and no step is added for that call.  The error
\* is the shape mismatch, except in retrieval when one of the results that
\* are paired with a query key scores a key that is no key of the input
\* casebase: building that step raises the lookup error first.
C2_MismatchFails ==
    \A n \in DOMAIN calls :
        (Len(calls[n].pairs) >= 1 /\ Mismatched(n)) =>
            /\ pc = "done"
            /\ ret = <<>>
            /\ n = Len(calls)
            /\ Len(steps) = n - 1
            /\ outcome = (IF PairedUnknownKey(n) THEN "KeyError" ELSE "ValueError")

\* a second retriever and a second reuser that return a list of the wrong
\* length: the retrieval case
C2_Witness ==
    /\ pc = "done"
    /\ outcome = "ValueError"
    /\ Len(calls) = 2
    /\ Len(calls[2].pairs) = 2
    /\ Mismatched(2)
    /\ Len(steps) = 1

\* the reuse case of C2: a reuser returns one result too many
C2_WitnessReuse ==
    /\ IsReuse
    /\ pc = "done"
    /\ outcome = "ValueError"
    /\ Len(calls[Len(calls)].pairs) >= 1
    /\ Len(ResultsOfCall(Len(calls))) > Len(calls[Len(calls)].pairs)

\* C4: in apply_batches every reuser is handed one pair per query key, in the
\* batch's key order; the query of every pair and of every step is the query
\* of that key in the input batch; the first reuser is handed the input
\* casebases, and every later reuser the casebase that the reuser before it
\* returned for that key.
C4_ReuseThreadsQuery ==
    IsReuse =>
        /\ \A n \in DOMAIN calls :
              /\ Len(calls[n].pairs) = Len(args.batch)
              /\ \A j \in DOMAIN args.batch :
                    /\ calls[n].pairs[j][2] = args.batch[j][2][2]
                    /\ calls[n].pairs[j][1] =
                          (IF n = 1 THEN args.batch[j][2][1] ELSE ResultsOfCall(n - 1)[j][1])
        /\ \A i \in DOMAIN steps :
              /\ Keys(steps[i].queries) = Keys(args.batch)
              /\ \A j \in DOMAIN args.batch :
                    /\ StepQuery(steps[i], j).query = args.batch[j][2][2]
                    /\ StepQuery(steps[i], j).casebase = ResultsOfCall(i)[j][1]

\* two queries with different values and different casebases, a first reuser
\* that rewrites the cases, and a second reuser that has been called
C4_Witness ==
    /\ IsReuse
    /\ Len(calls) = 2
    /\ Len(args.batch) = 2
    /\ args.batch[1][2][2] # args.batch[2][2][2]
    /\ reusers[1].kind = "adapt"
    /\ calls[2].pairs[2][1] # args.batch[2][2][1]
    /\ calls[2].pairs[1][1] # calls[2].pairs[2][1]

\* what C5 says of the export, given what the export holds for the
\* similarities of query j of step i
ExportShape(Similarities(_, _)) ==
    LET xs == Get(exported, "steps")
    IN  /\ KeySet(exported) = {"steps"}
        /\ Len(xs) = Len(ret.steps)
        /\ ret = [steps |-> steps]
        /\ \A i \in DOMAIN xs :
              /\ KeySet(xs[i]) = {"queries", "metadata"}
              /\ Get(xs[i], "metadata") = ret.steps[i].metadata
              /\ Keys(Get(xs[i], "queries")) = Keys(ret.steps[i].queries)
              /\ \A j \in DOMAIN ret.steps[i].queries :
                    LET item == Get(xs[i], "queries")[j][2]
                        q == StepQuery(ret.steps[i], j)
                    IN  /\ ~Has(item, "casebase")
                        /\ KeySet(item) = {"similarities", "ranking"}
                        /\ Get(item, "similarities") = Similarities(i, j)
                        /\ Get(item, "ranking") = q.ranking
                        /\ QueryResultStep_as_dict(q) = item

\* the similarities of query j of step i, as the Result holds them
StepSimilarities(i, j) == StepQuery(ret.steps[i], j).similarities

\* the same, every structured value replaced by the dict of its fields
PlainSimilarities(i, j) ==
    LET sims == StepSimilarities(i, j)
    IN  [e \in DOMAIN sims |->
            <<sims[e][1],
              IF sims[e][2][1] = "float" THEN sims[e][2]
              ELSE <<"dict", <<<<"value", unpack_sim(sims[e][2])>>>>>>>>]

\* C5 as stated: the export of a Result holds, for every step and every
\* query, no casebase, and the similarities, the ranking and the metadata
\* unchanged; QueryResultStep.as_dict gives the same per query; and the
\* Result is as it was.
C5_AsStated ==
    (pc = "exported") => ExportShape(StepSimilarities)

\* C5: the export of a Result holds, for every step and every query, no
\* casebase, the ranking and the step's metadata unchanged, and the
\* similarities under the same keys in the same order, a bare number
\* unchanged and a structured value as the plain dict of its fields, with
\* its scalar under "value"; QueryResultStep.as_dict gives the same per
\* query; and the Result is as it was.
C5_ExportDropsCasebase ==
    (pc = "exported") => ExportShape(PlainSimilarities)

\* an export of two steps and two queries whose steps hold cases, the first
\* with bare scores and the second with structured ones
C5_Witness ==
    /\ pc = "exported"
    /\ Len(ret.steps) = 2
    /\ Len(args.queries) = 2
    /\ Len(StepQuery(ret.steps[1], 1).casebase) = 2
    /\ StepQuery(ret.steps[2], 2).casebase # <<>>
    /\ ret.steps[1].metadata # <<>>
    /\ StepSimilarities(1, 1)[1][2][1] = "float"
    /\ StepSimilarities(2, 2)[1][2][1] = "struct"

\* an export of a step whose similarities are structured values
C5_WitnessStructured ==
    /\ pc = "exported"
    /\ \E i \in DOMAIN ret.steps : \E j \in DOMAIN ret.steps[i].queries :
          \E e \in DOMAIN StepSimilarities(i, j) :
              StepSimilarities(i, j)[e][2][1] = "struct"

\* C8 as stated: in every step of either pipeline the casebase, the ranking
\* and the similarities have the same keys; and in retrieval a scored key
\* that is no key of the input casebase makes the call fail with the lookup
\* error.
C8_AsStated ==
    /\ \A i \in DOMAIN steps : \A j \in DOMAIN steps[i].queries :
          /\ KeySet(StepQuery(steps[i], j).casebase) = Range(StepQuery(steps[i], j).ranking)
          /\ KeySet(StepQuery(steps[i], j).casebase) = KeySet(StepQuery(steps[i], j).similarities)
    /\ \A n \in DOMAIN calls :
          PairedUnknownKey(n) => (pc = "done" /\ outcome = "KeyError" /\ Len(steps) = n - 1)

\* C8 amended: in every step of either pipeline the ranking is a permutation
\* of the keys of the similarities.  In every retrieval step the casebase is
\* the input casebase restricted to exactly the scored keys, so its keys are
\* those of the ranking; and a result that is paired with a query key and
\* scores a key that is no key of the input casebase makes the call fail with
\* the lookup error, and no step is built from it.  In a reuse step the
\* casebase is the whole casebase the reuser returned, whatever it scored.
C8_StepKeys ==
    /\ \A i \in DOMAIN steps : \A j \in DOMAIN steps[i].queries :
          LET q == StepQuery(steps[i], j)
          IN  /\ Range(q.ranking) = KeySet(q.similarities)
              /\ Len(q.ranking) = Len(q.similarities)
              /\ IsRetrieval =>
                    /\ KeySet(q.casebase) = Range(q.ranking)
                    /\ Len(q.casebase) = Len(q.ranking)
                    /\ \A k \in KeySet(q.casebase) :
                          Has(args.casebase, k) /\ Get(q.casebase, k) = Get(args.casebase, k)
              /\ IsReuse => q.casebase = ResultsOfCall(i)[j][1]
    /\ \A n \in DOMAIN calls :
          PairedUnknownKey(n) =>
              /\ pc = "done"
              /\ outcome = "KeyError"
              /\ ret = <<>>
              /\ Len(steps) = n - 1

\* a retrieval step that keeps one of two cases for a query, built from a
\* map of a casebase that has more keys
C8_Witness ==
    /\ IsRetrieval
    /\ Len(steps) >= 1
    /\ Len(args.casebase) = 2
    /\ \E j \in DOMAIN args.queries :
          /\ Len(StepQuery(steps[1], j).casebase) = 1
          /\ StepQuery(steps[1], j).casebase[1] = args.casebase[2]

\* the failing case of C8: a retriever scores a key that is no case
C8_WitnessKeyError ==
    /\ IsRetrieval
    /\ pc = "done"
    /\ outcome = "KeyError"
    /\ Len(calls) = 2
    /\ Len(steps) = 1

\* C9: apply_queries (also entered through apply_query, with the one query
\* under "default") with an empty sequence of retrievers fails with the
\* assertion error, invokes no retriever and returns no Result; with one
\* retriever that is no sequence it does what it does with the sequence of
\* that one retriever: the retriever is invoked once, with the input casebase
\* for every query, and the Result has the one step built from its results.
C9_RetrieversPrecondition ==
    (IsRetrieval /\ pc \notin {"apply_queries", "apply_query"}) =>
        /\ (args.retrievers.type = "Sequence" /\ args.retrievers.value = <<>>) =>
              /\ pc = "done"
              /\ outcome = "AssertionError"
              /\ calls = <<>>
              /\ steps = <<>>
              /\ ret = <<>>
        /\ args.retrievers.value # <<>> => outcome # "AssertionError"
        /\ args.retrievers.type = "RetrieverFunc" =>
              LET r == args.retrievers.value[1]
                  pairs == [j \in DOMAIN args.queries |-> <<args.casebase, args.queries[j][2]>>]
                  results == CallRetriever(r, pairs)
                  err == step_error(args.queries, results, args.casebase)
              IN  /\ retrievers = <<r>>
                  /\ Len(calls) <= 1
                  /\ Finished =>
                        /\ calls = <<[func |-> 1, pairs |-> pairs]>>
                        /\ outcome = err
                        /\ err = "ok" =>
                              ret = [steps |-> <<[queries |-> step_queries(args.queries, results,
                                                                           args.casebase),
                                                  metadata |-> get_metadata(r)]>>]
                        /\ err # "ok" => ret = <<>>

\* apply_query with an empty sequence of retrievers has failed
C9_Witness ==
    /\ IsRetrieval
    /\ pc = "done"
    /\ Keys(args.queries) = <<"default">>
    /\ args.retrievers = [type |-> "Sequence", value |-> <<>>]
    /\ outcome = "AssertionError"
    /\ calls = <<>>

\* a lone retriever has produced the one step of a Result
C9_WitnessSingle ==
    /\ IsRetrieval
    /\ pc = "done"
    /\ args.retrievers.type = "RetrieverFunc"
    /\ outcome = "ok"
    /\ Len(ret.steps) = 1
    /\ Len(args.queries) = 2

\* C13: apply_queries invokes the retrievers one after the other in the given
\* order, none twice, and all of them once when it returns a Result; every
\* invocation gets one (casebase, query) pair per query, in the order of the
\* queries' keys; the first gets the input casebase for every query, and
\* invocation n + 1 gets for the query at each key the casebase that step n
\* holds under that key; an invocation is made only when the steps of all
\* invocations before it are built, each for all queries.
C13_RetrieverOrder ==
    (IsRetrieval /\ pc \notin {"apply_queries", "apply_query"}) =>
        /\ Len(calls) <= Len(retrievers)
        /\ Len(steps) <= Len(calls)
        /\ Len(calls) <= Len(steps) + 1
        /\ (Len(calls) = Len(steps) + 1) => (pc = "done" /\ outcome \notin {"running", "ok"})
        /\ (Finished /\ outcome = "ok") => Len(calls) = Len(retrievers)
        /\ \A n \in DOMAIN steps : Keys(steps[n].queries) = Keys(args.queries)
        /\ \A n \in DOMAIN calls :
              /\ calls[n].func = n
              /\ DOMAIN calls[n].pairs = DOMAIN args.queries
              /\ \A j \in DOMAIN args.queries :
                    /\ calls[n].pairs[j][2] = args.queries[j][2]
                    /\ calls[n].pairs[j][1] =
                          IF n = 1 THEN args.casebase
                          ELSE Get(steps[n - 1].queries, args.queries[j][1]).casebase

\* two retrievers over two queries: the first step kept a different case for
\* each query, and the second retriever was handed the two casebases
C13_Witness ==
    /\ IsRetrieval
    /\ pc = "done"
    /\ outcome = "ok"
    /\ Len(calls) = 2
    /\ Len(args.queries) = 2
    /\ Len(args.casebase) = 2
    /\ Len(calls[2].pairs[1][1]) = 1
    /\ Len(calls[2].pairs[2][1]) = 1
    /\ calls[2].pairs[1][1] # calls[2].pairs[2][1]

\* a failed call of two retrievers: the first failed, the second was never
\* invoked
C13_WitnessFailed ==
    /\ IsRetrieval
    /\ pc = "done"
    /\ outcome = "ValueError"
    /\ Len(retrievers) = 2
    /\ Len(calls) = 1

\* every entry of casebase cb is an entry of the input casebase
OriginalValues(cb) ==
    \A e \in DOMAIN cb :
        /\ Has(args.casebase, cb[e][1])
        /\ cb[e][2] = Get(args.casebase, cb[e][1])

\* C14: in retrieval apply_queries, every case value held in a step's
\* casebase, for every query, is the input casebase's value at that key, and
\* so is every case value of a casebase handed to a retriever, with the
\* query handed over being the input query: also behind a transposing
\* retriever, whose inner retriever works on converted values; and no step
\* of the call changes the input casebase or the input queries.
C14_CaseValuesKept ==
    /\ [](IsRetrieval =>
            /\ \A n \in DOMAIN steps : \A j \in DOMAIN steps[n].queries :
                  OriginalValues(StepQuery(steps[n], j).casebase)
            /\ \A n \in DOMAIN calls : \A j \in DOMAIN calls[n].pairs :
                  /\ OriginalValues(calls[n].pairs[j][1])
                  /\ calls[n].pairs[j][2] = args.queries[j][2]
            /\ (pc = "done" /\ outcome = "ok") => ret.steps = steps)
    /\ [][IsRetrieval =>
            /\ args'.casebase = args.casebase
            /\ Values(args'.queries) = Values(args.queries)]_vars

\* a transposing retriever kept a case that did not equal the query because
\* its converted value equalled the converted query; the step and the next
\* retriever's casebase hold the unconverted value
C14_Witness ==
    /\ IsRetrieval
    /\ pc = "done"
    /\ outcome = "ok"
    /\ Len(retrievers) = 2
    /\ retrievers[1].kind = "transpose"
    /\ Len(args.queries) = 1
    /\ \E e \in DOMAIN StepQuery(steps[1], 1).casebase :
          LET value == StepQuery(steps[1], 1).casebase[e][2]
          IN  /\ value # args.queries[1][2]
              /\ conversion_func(value) # value
              /\ conversion_func(value) = conversion_func(args.queries[1][2])
              /\ calls[2].pairs[1][1][e][2] = value

====
